---- MODULE Spec2Model ----
(***************************************************************************)
(* ChronoPlan: recurrence expansion, virtual ids and per-occurrence        *)
(* completion (services/recurrenceService.ts, App.tsx).                     *)
(*                                                                         *)
(* Instants are whole minutes since 1970-01-01T00:00Z (the resolution of    *)
(* the form's datetime-local inputs); a Task's start/end/until fields hold  *)
(* the instant their ISO string denotes.  The host time zone is UTC, so     *)
(* local date fields are the UTC fields.  Strings that the code splits or   *)
(* compares (ids, completedInstances entries) are sequences of tokens; the  *)
(* token ":" is one colon character.                                        *)
(***************************************************************************)
EXTENDS Integers, Sequences, FiniteSets, TLC

VARIABLES
  tasks,        \* App: the task list (series definitions); the argument `tasks`
  viewMode,     \* App: ViewMode
  currentDate,  \* App: the day number of currentDate (the views' buttons that
                \* move it are not modelled)
  visibleTasks, \* App: the memoized list of the current view
  searchQuery,  \* App: the text of the search box, a sequence of characters
  nextId,       \* how many ids crypto.randomUUID has handed out
  rangeStart,   \* argument rangeStart of the call under test
  rangeEnd,     \* argument rangeEnd of the call under test
  result,       \* the list generateRecurringTasks returned for that call
  loops,        \* per series of that call: how its while loop was left
  phase,        \* "input" before the call under test, "returned" after it,
                \* "app" while the App runs
  idToParse,    \* argument virtualId of the parseVirtualId call under test
  decoded,      \* what that call returned
  target,       \* argument `task` of the checkConflict call under test: its
                \* index in visibleTasks (0 before the call)
  conflict,     \* what that call returned
  now,             \* the clock (new Date()), in seconds since 1970-01-01T00:00Z
  notifiedTaskIds, \* App: the set notifiedTaskIds
  activeReminder,  \* App: <<>> for null, <<task>> for a task
  timers,          \* the interval timers pending in the event loop
  intervalId,      \* the timer the reminder effect registered last
  mounted,         \* whether the App is mounted
  permission,      \* Notification.permission
  reminders        \* per occurrence id, how many reminder events were emitted

appVars  == <<tasks, viewMode, currentDate, visibleTasks, searchQuery, nextId>>
callVars == <<rangeStart, rangeEnd, result, loops, phase,
              idToParse, decoded, target, conflict>>
scanVars == <<now, notifiedTaskIds, activeReminder, timers, intervalId, mounted,
              permission, reminders>>
vars     == <<tasks, viewMode, currentDate, visibleTasks, searchQuery, nextId,
              rangeStart, rangeEnd, result, loops, phase,
              idToParse, decoded, target, conflict,
              now, notifiedTaskIds, activeReminder, timers, intervalId, mounted,
              permission, reminders>>

\* No interval timer: what intervalId holds when none is registered.
NoTimer == [due |-> 0, tasks |-> <<>>, notifiedTaskIds |-> {}]

\* The reminder scanner left out: no timer, no clock.
ScannerOff ==
  /\ now = 0
  /\ notifiedTaskIds = {}
  /\ activeReminder = <<>>
  /\ timers = {}
  /\ intervalId = NoTimer
  /\ mounted = TRUE
  /\ permission = "default"
  /\ reminders = <<>>

(***************************************************************************)
(* Date built-ins used by the expander.                                    *)
(***************************************************************************)
MinutesPerDay == 24 * 60

\* Day number (days since 1970-01-01) of the civil date y-m-d, m in 1..12;
\* d may lie outside the month, as in ECMAScript MakeDay.
DaysFromCivil(y, m, d) ==
  LET yy  == IF m <= 2 THEN y - 1 ELSE y
      era == yy \div 400
      yoe == yy - era * 400
      mp  == (m + 9) % 12
      doy == (153 * mp + 2) \div 5 + d - 1
      doe == yoe * 365 + yoe \div 4 - yoe \div 100 + doy
  IN  era * 146097 + doe - 719468

\* The civil date [y, m, d] of a day number.
CivilFromDays(z) ==
  LET zz  == z + 719468
      era == zz \div 146097
      doe == zz - era * 146097
      yoe == (doe - doe \div 1460 + doe \div 36524 - doe \div 146096) \div 365
      doy == doe - (365 * yoe + yoe \div 4 - yoe \div 100)
      mp  == (5 * doy + 2) \div 153
      d   == doy - (153 * mp + 2) \div 5 + 1
      m   == IF mp < 10 THEN mp + 3 ELSE mp - 9
      y   == yoe + era * 400 + (IF m <= 2 THEN 1 ELSE 0)
  IN  [y |-> y, m |-> m, d |-> d]

\* MakeDate(MakeDay(year, month, date), time within day); month is 0-based and
\* may lie outside 0..11, date may lie outside the month.
MakeDate(year, month0, date, tod) ==
  LET ym == year + month0 \div 12
      mn == month0 % 12
  IN  (DaysFromCivil(ym, mn + 1, 1) + date - 1) * MinutesPerDay + tod

\* Date.prototype.setDate(getDate() + n)
setDatePlus(t, n) ==
  LET c == CivilFromDays(t \div MinutesPerDay)
  IN  MakeDate(c.y, c.m - 1, c.d + n, t % MinutesPerDay)

\* Date.prototype.setMonth(getMonth() + n)
setMonthPlus(t, n) ==
  LET c == CivilFromDays(t \div MinutesPerDay)
  IN  MakeDate(c.y, c.m - 1 + n, c.d, t % MinutesPerDay)

\* Date.prototype.setFullYear(getFullYear() + n)
setFullYearPlus(t, n) ==
  LET c == CivilFromDays(t \div MinutesPerDay)
  IN  MakeDate(c.y + n, c.m - 1, c.d, t % MinutesPerDay)

\* Date.prototype.toISOString(): the UTC fields, in tokens.
toISOString(t) ==
  LET c   == CivilFromDays(t \div MinutesPerDay)
      tod == t % MinutesPerDay
  IN  << ToString(c.y), "-", ToString(c.m), "-", ToString(c.d), "T",
         ToString(tod \div 60), ":", ToString(tod % 60), ":", "00.000Z" >>

(***************************************************************************)
(* types.ts                                                                *)
(***************************************************************************)
NONE    == "None"
DAILY   == "Daily"
WEEKLY  == "Weekly"
MONTHLY == "Monthly"
YEARLY  == "Yearly"

\* task.recurrence === undefined
NoRecurrence ==
  [defined |-> FALSE, frequency |-> NONE, hasInterval |-> FALSE, interval |-> 0,
   hasUntil |-> FALSE, until |-> 0]

\* A RecurrenceConfig without until.
Every(freq, n) ==
  [defined |-> TRUE, frequency |-> freq, hasInterval |-> TRUE, interval |-> n,
   hasUntil |-> FALSE, until |-> 0]

\* A RecurrenceConfig with until.
EveryUntil(freq, n, u) ==
  [defined |-> TRUE, frequency |-> freq, hasInterval |-> TRUE, interval |-> n,
   hasUntil |-> TRUE, until |-> u]

(***************************************************************************)
(* services/recurrenceService.ts                                           *)
(***************************************************************************)
MAX_ITERATIONS == 1000

\* The two-character separator of a virtual id.
Separator == <<":", ":">>

\* VirtualId joined by a single colon.
VirtualId_singleColon(id, startIso) == id \o <<":">> \o startIso

\* An id made of the series id and the separator only.
VirtualId_withoutStart(id, startIso) == id \o Separator

\* `${task.id}::${startIso}`
VirtualId(id, startIso) == id \o Separator \o startIso

\* const { frequency, interval = 1, until } = task.recurrence
IntervalOf(rec) == IF rec.hasInterval THEN rec.interval ELSE 1

\* Advance taking a month for thirty days.
Advance_monthIsThirtyDays(frequency, interval, t) ==
  CASE frequency = DAILY   -> setDatePlus(t, interval)
    [] frequency = WEEKLY  -> setDatePlus(t, 7 * interval)
    [] frequency = MONTHLY -> setDatePlus(t, 30 * interval)
    [] frequency = YEARLY  -> setFullYearPlus(t, interval)
    [] OTHER               -> t

\* The switch that advances currentStart by one recurrence step.
Advance(frequency, interval, t) ==
  CASE frequency = DAILY   -> setDatePlus(t, interval)
    [] frequency = WEEKLY  -> setDatePlus(t, 7 * interval)
    [] frequency = MONTHLY -> setMonthPlus(t, interval)
    [] frequency = YEARLY  -> setFullYearPlus(t, interval)
    [] OTHER               -> t

\* LoopGuard with until exclusive.
LoopGuard_untilExclusive(task, st, rEnd) ==
  /\ st.currentStart < rEnd
  /\ (~task.recurrence.hasUntil \/ st.currentStart < task.recurrence.until)
  /\ st.iterations < MAX_ITERATIONS

\* LoopGuard with the cap off by one.
LoopGuard_capOffByOne(task, st, rEnd) ==
  /\ st.currentStart < rEnd
  /\ (~task.recurrence.hasUntil \/ st.currentStart <= task.recurrence.until)
  /\ st.iterations <= MAX_ITERATIONS

\* The condition of the while loop.
LoopGuard(task, st, rEnd) ==
  /\ st.currentStart < rEnd
  /\ (~task.recurrence.hasUntil \/ st.currentStart <= task.recurrence.until)
  /\ st.iterations < MAX_ITERATIONS

\* Instance without the override of end.
Instance_keepsSeriesEnd(task, currentStart, currentEnd) ==
  LET startIso == toISOString(currentStart)
  IN  [task EXCEPT !.id        = VirtualId(task.id, startIso),
                   !.start     = currentStart,
                   !.completed = \E i \in 1..Len(task.completedInstances) :
                                    task.completedInstances[i] = startIso]

\* Instance whose completed also follows the series' flag.
Instance_seriesCompleted(task, currentStart, currentEnd) ==
  LET startIso == toISOString(currentStart)
  IN  [task EXCEPT !.id        = VirtualId(task.id, startIso),
                   !.start     = currentStart,
                   !.end       = currentEnd,
                   !.completed = task.completed \/
                                 \E i \in 1..Len(task.completedInstances) :
                                    task.completedInstances[i] = startIso]

\* The occurrence pushed for currentStart.
Instance(task, currentStart, currentEnd) ==
  LET startIso == toISOString(currentStart)
  IN  [task EXCEPT !.id        = VirtualId(task.id, startIso),
                   !.start     = currentStart,
                   !.end       = currentEnd,
                   !.completed = \E i \in 1..Len(task.completedInstances) :
                                    task.completedInstances[i] = startIso]

\* LoopBody counting only the passes that push an occurrence.
LoopBody_countsPushes(task, st, rStart, rEnd) ==
  LET taskDuration == task.end - task.start
      currentEnd   == st.currentStart + taskDuration
      inWindow     == st.currentStart < rEnd /\ currentEnd > rStart
  IN  [currentStart |-> Advance(task.recurrence.frequency,
                                IntervalOf(task.recurrence), st.currentStart),
       iterations   |-> IF inWindow THEN st.iterations + 1 ELSE st.iterations,
       out          |-> IF inWindow
                        THEN Append(st.out, Instance(task, st.currentStart, currentEnd))
                        ELSE st.out]

\* One pass through the body of the while loop.
LoopBody(task, st, rStart, rEnd) ==
  LET taskDuration == task.end - task.start
      currentEnd   == st.currentStart + taskDuration
      pushed       == IF st.currentStart < rEnd /\ currentEnd > rStart
                      THEN Append(st.out, Instance(task, st.currentStart, currentEnd))
                      ELSE st.out
  IN  [currentStart |-> Advance(task.recurrence.frequency,
                                IntervalOf(task.recurrence), st.currentStart),
       iterations   |-> st.iterations + 1,
       out          |-> pushed]

\* n successive evaluations of "if the loop condition holds, run the body".
RECURSIVE Iterate(_, _, _, _, _)
Iterate(task, st, rStart, rEnd, n) ==
  IF n = 0 \/ ~LoopGuard(task, st, rEnd) THEN st
  ELSE IF n = 1 THEN LoopBody(task, st, rStart, rEnd)
  ELSE LET half == n \div 2
           mid  == Iterate(task, st, rStart, rEnd, half)
       IN  Iterate(task, mid, rStart, rEnd, n - half)

\* The loop state when the while loop of one recurring series is left, or
\* after MAX_ITERATIONS + 1 passes if it has not been left by then.
RunLoop(task, rStart, rEnd) ==
  Iterate(task, [currentStart |-> task.start, iterations |-> 0, out |-> <<>>],
          rStart, rEnd, MAX_ITERATIONS + 1)

\* !task.recurrence || task.recurrence.frequency === RecurrenceFrequency.NONE
NotRecurring(task) == ~task.recurrence.defined \/ task.recurrence.frequency = NONE

\* InRange with closed interval ends.
InRange_inclusive(task, rStart, rEnd) == task.start <= rEnd /\ task.end >= rStart

\* taskStart < rangeEnd && new Date(task.end) > rangeStart
InRange(task, rStart, rEnd) == task.start < rEnd /\ task.end > rStart

\* One pass of tasks.forEach: what the series pushes, and for a recurring
\* series the loop variables when its loop was left.
ExpandTask(task, rStart, rEnd) ==
  IF NotRecurring(task)
  THEN [currentStart |-> task.start, iterations |-> 0,
        out |-> IF InRange(task, rStart, rEnd) THEN <<task>> ELSE <<>>]
  ELSE RunLoop(task, rStart, rEnd)

\* tasks.forEach over the whole list.
ExpansionRuns(ts, rStart, rEnd) ==
  [i \in 1..Len(ts) |-> ExpandTask(ts[i], rStart, rEnd)]

RECURSIVE Flatten(_, _)
Flatten(runs, i) ==
  IF i > Len(runs) THEN <<>> ELSE runs[i].out \o Flatten(runs, i + 1)

\* The array `result` after the forEach.
ResultOf(runs) == Flatten(runs, 1)

generateRecurringTasks(ts, rStart, rEnd) == ResultOf(ExpansionRuns(ts, rStart, rEnd))

\* virtualId.split('::')
RECURSIVE SplitFrom(_, _, _)
SplitFrom(s, i, cur) ==
  IF i > Len(s) THEN <<cur>>
  ELSE IF i < Len(s) /\ s[i] = Separator[1] /\ s[i + 1] = Separator[2]
       THEN <<cur>> \o SplitFrom(s, i + 2, <<>>)
       ELSE SplitFrom(s, i + 1, Append(cur, s[i]))

\* instanceDate is null when hasInstance is FALSE.
parseVirtualId(virtualId) ==
  LET parts == SplitFrom(virtualId, 1, <<>>)
  IN  IF Len(parts) = 2
      THEN [originalId |-> parts[1], hasInstance |-> TRUE, instanceDate |-> parts[2]]
      ELSE [originalId |-> virtualId, hasInstance |-> FALSE, instanceDate |-> <<>>]

\* No call of parseVirtualId or checkConflict is under test.
NoOtherCall ==
  /\ idToParse = <<>>
  /\ decoded = parseVirtualId(<<>>)
  /\ target = 0
  /\ conflict = FALSE

(***************************************************************************)
(* Calls of generateRecurringTasks on chosen arguments.                    *)
(***************************************************************************)
\* The instant y-m-d h:mi.
At(y, m, d, h, mi) == DaysFromCivil(y, m, d) * MinutesPerDay + h * 60 + mi

\* A Task record; completedInstances absent is the empty list.
Series(id, s, e, rec, done, doneAt) ==
  [id |-> id, title |-> "task", description |-> "", start |-> s, end |-> e,
   priority |-> "Medium", reminderMinutes |-> 15, completed |-> done,
   recurrence |-> rec, completedInstances |-> doneAt]

\* Series definitions the expander is called on: ids as crypto.randomUUID
\* makes them (no separator inside), intervals as the form (>= 1) or a batch
\* import (any number, or none) admits them.
Templates ==
  << \* 1: one-off 10:00-11:00
     Series(<<"u1">>, At(2023,1,10,10,0), At(2023,1,10,11,0), NoRecurrence, FALSE, <<>>),
     \* 2: frequency None, completed
     Series(<<"u2">>, At(2023,1,10,10,0), At(2023,1,10,11,0), Every(NONE, 1), TRUE, <<>>),
     \* 3: one-off spanning three days
     Series(<<"u3">>, At(2023,1,9,0,0), At(2023,1,12,0,0), NoRecurrence, FALSE, <<>>),
     \* 4: daily, until the end of the third day
     Series(<<"u4">>, At(2023,1,10,9,0), At(2023,1,10,10,0),
            EveryUntil(DAILY, 1, At(2023,1,12,23,59)), FALSE, <<>>),
     \* 5: daily, until exactly the start of the third occurrence
     Series(<<"u5">>, At(2023,1,10,9,0), At(2023,1,10,10,0),
            EveryUntil(DAILY, 1, At(2023,1,12,9,0)), FALSE, <<>>),
     \* 6: every second day, series flag set, one instance completed
     Series(<<"u6">>, At(2023,1,8,9,0), At(2023,1,8,10,0), Every(DAILY, 2), TRUE,
            <<toISOString(At(2023,1,10,9,0))>>),
     \* 7: weekly
     Series(<<"u7">>, At(2023,1,3,9,0), At(2023,1,3,10,0), Every(WEEKLY, 1), FALSE,
            <<toISOString(At(2023,1,10,9,0)), toISOString(At(2023,1,11,9,0))>>),
     \* 8: monthly from Jan 31
     Series(<<"u8">>, At(2023,1,31,9,0), At(2023,1,31,10,0), Every(MONTHLY, 1), FALSE, <<>>),
     \* 9: yearly from Feb 29
     Series(<<"u9">>, At(2020,2,29,9,0), At(2020,2,29,10,0), Every(YEARLY, 1), FALSE, <<>>),
     \* 10: daily, interval 0
     Series(<<"u10">>, At(2023,1,10,9,0), At(2023,1,10,10,0), Every(DAILY, 0), FALSE, <<>>),
     \* 11: weekly, interval -1
     Series(<<"u11">>, At(2023,1,17,9,0), At(2023,1,17,10,0), Every(WEEKLY, -1), FALSE, <<>>),
     \* 12: daily since 2020, no until
     Series(<<"u12">>, At(2020,1,1,9,0), At(2020,1,1,10,0), Every(DAILY, 1), FALSE, <<>>),
     \* 13: daily, each occurrence three days long
     Series(<<"u13">>, At(2023,1,8,0,0), At(2023,1,11,0,0), Every(DAILY, 1), FALSE, <<>>),
     \* 14: monthly, no interval given
     Series(<<"u14">>, At(2023,1,10,9,0), At(2023,1,10,10,0),
            [Every(MONTHLY, 0) EXCEPT !.hasInterval = FALSE], FALSE, <<>>),
     \* 15: yearly since 1600, no until
     Series(<<"u15">>, At(1600,1,10,9,0), At(1600,1,10,10,0), Every(YEARLY, 1), FALSE, <<>>),
     \* 16: daily since 2020, each occurrence three days long
     Series(<<"u16">>, At(2020,1,1,0,0), At(2020,1,4,0,0), Every(DAILY, 1), FALSE, <<>>) >>

\* The task lists of the calls: every single series, and pairs of a few.
TaskLists ==
  { <<Templates[i]>> : i \in 1..Len(Templates) } \cup
  { <<Templates[i], Templates[j]>> : i, j \in {1, 6, 8} }

\* The windows <<rangeStart, rangeEnd>> of the calls.
Windows ==
  { <<At(2023,1,10,0,0),   At(2023,1,11,0,0)>>,    \* one day
    <<At(2023,1,10,9,0),   At(2023,1,10,10,30)>>,
    <<At(2023,1,10,11,0),  At(2023,1,10,12,0)>>,   \* starts where series 1 ends
    <<At(2023,1,10,8,0),   At(2023,1,10,10,0)>>,   \* ends where series 1 starts
    <<At(2023,1,10,10,30), At(2023,1,10,10,30)>>,  \* empty window
    <<At(2023,1,10,0,0),   At(2023,1,15,0,0)>>,    \* five days
    <<At(2023,1,1,0,0),    At(2023,5,1,0,0)>>,     \* four months
    <<At(2024,2,1,0,0),    At(2025,4,1,0,0)>>,
    <<At(2700,1,1,0,0),    At(2700,2,1,0,0)>>,     \* far future
    <<At(2022,9,27,12,0),  At(2022,9,28,0,0)>>,    \* 1000 days after 2020-01-01
    <<At(2023,1,11,0,0),   At(2023,1,10,0,0)>>,    \* rangeStart > rangeEnd
    <<At(2023,1,10,10,45), At(2023,1,10,10,15)>> }

InitExpand ==
  /\ tasks \in TaskLists
  /\ viewMode = "Day"
  /\ currentDate = 0
  /\ visibleTasks = <<>>
  /\ searchQuery = <<>>
  /\ nextId = 0
  /\ \E w \in Windows : rangeStart = w[1] /\ rangeEnd = w[2]
  /\ result = <<>>
  /\ loops = <<>>
  /\ phase = "input"
  /\ NoOtherCall
  /\ ScannerOff

\* The call: result is what it returns; loops records, per series, the loop
\* variables on exit and how many occurrences the series pushed.
CallExpand ==
  /\ phase = "input"
  /\ LET runs == ExpansionRuns(tasks, rangeStart, rangeEnd)
     IN  /\ result' = ResultOf(runs)
         /\ loops' = [i \in 1..Len(runs) |->
                        [currentStart |-> runs[i].currentStart,
                         iterations   |-> runs[i].iterations,
                         pushed       |-> Len(runs[i].out)]]
  /\ phase' = "returned"
  /\ UNCHANGED <<rangeStart, rangeEnd, idToParse, decoded, target, conflict>>
  /\ UNCHANGED <<appVars, scanVars>>

NextExpand == CallExpand

SpecExpand == InitExpand /\ [][NextExpand]_vars

(***************************************************************************)
(* Properties of one call.                                                 *)
(***************************************************************************)
Returned == phase = "returned"

RECURSIVE PushedBefore(_)
PushedBefore(i) == IF i <= 1 THEN 0 ELSE PushedBefore(i - 1) + loops[i - 1].pushed

\* The part of result that series i of the call pushed.
Segment(i) == SubSeq(result, PushedBefore(i) + 1, PushedBefore(i) + loops[i].pushed)

Recurring(task) == ~NotRecurring(task)

\* start_0 .. start_(n-1): the series' start advanced step by step.
RECURSIVE StepStartsFrom(_, _, _)
StepStartsFrom(task, t, n) ==
  IF n = 0 THEN <<>>
  ELSE IF n = 1 THEN <<t>>
  ELSE LET half  == n \div 2
           first == StepStartsFrom(task, t, half)
           next  == Advance(task.recurrence.frequency, IntervalOf(task.recurrence),
                            first[half])
       IN  first \o StepStartsFrom(task, next, n - half)

StepStarts(task, n) == StepStartsFrom(task, task.start, n)

StartsOf(occurrences) == [j \in 1..Len(occurrences) |-> occurrences[j].start]

\* C1: with rangeStart <= rangeEnd, a non-recurring series is in the result
\* exactly when series.start < rangeEnd and series.end > rangeStart; touching
\* the window at a boundary instant does not include it.
C1_NonRecurringOverlap ==
  (Returned /\ rangeStart <= rangeEnd) =>
    \A i \in 1..Len(tasks) :
      NotRecurring(tasks[i]) =>
        Segment(i) = IF tasks[i].start < rangeEnd /\ tasks[i].end > rangeStart
                     THEN <<tasks[i]>> ELSE <<>>

\* A one-off series that ends exactly where the window starts was left out,
\* and one that overlaps a window was returned.
C1_Witness ==
  /\ Returned /\ rangeStart <= rangeEnd /\ Len(tasks) = 1 /\ NotRecurring(tasks[1])
  /\ tasks[1].end = rangeStart
  /\ result = <<>>

\* C2: with rangeStart <= rangeEnd and interval >= 1, the occurrences of a
\* recurring series are, in step order, exactly the steps k in 0..999 with
\* start_k <= until (if until is set), start_k < rangeEnd and
\* start_k + duration > rangeStart, one occurrence for each.
C2_ExactlyTheOverlappingSteps ==
  (Returned /\ rangeStart <= rangeEnd) =>
    \A i \in 1..Len(tasks) :
      (Recurring(tasks[i]) /\ IntervalOf(tasks[i].recurrence) >= 1) =>
        LET task     == tasks[i]
            duration == task.end - task.start
            Wanted(s) == /\ (task.recurrence.hasUntil => s <= task.recurrence.until)
                         /\ s < rangeEnd
                         /\ s + duration > rangeStart
        IN  StartsOf(Segment(i)) = SelectSeq(StepStarts(task, MAX_ITERATIONS), Wanted)

\* The daily series bounded by until on the third day, over five days: three
\* occurrences; and the one whose until is the third start itself also has three.
C2_Witness ==
  /\ Returned /\ Len(tasks) = 1 /\ Recurring(tasks[1])
  /\ tasks[1].recurrence.hasUntil
  /\ tasks[1].recurrence.until = tasks[1].start + 2 * MinutesPerDay
  /\ rangeEnd = rangeStart + 5 * MinutesPerDay
  /\ Len(result) = 3
  /\ result[3].start = tasks[1].recurrence.until

\* C3: a call with rangeStart > rangeEnd returns the empty list.
C3_MalformedWindowEmpty ==
  (Returned /\ rangeStart > rangeEnd) => result = <<>>

\* interval <= 0 replaced by 1 in every recurrence.
NormalizedIntervals(ts) ==
  [i \in 1..Len(ts) |->
     IF ts[i].recurrence.hasInterval /\ ts[i].recurrence.interval <= 0
     THEN [ts[i] EXCEPT !.recurrence.interval = 1]
     ELSE ts[i]]

\* C4: the result for a series with interval <= 0 is the result for the same
\* series with interval 1.
C4_NonPositiveIntervalAsOne ==
  Returned => result = generateRecurringTasks(NormalizedIntervals(tasks),
                                              rangeStart, rangeEnd)

\* C5: the while loop of every recurring series is left after at most 1000
\* passes, whatever the frequency, interval, until and window, and the series
\* pushes at most 1000 occurrences.
C5_LoopLeftWithinCap ==
  Returned =>
    \A i \in 1..Len(tasks) :
      Recurring(tasks[i]) =>
        /\ loops[i].iterations <= MAX_ITERATIONS
        /\ ~LoopGuard(tasks[i], loops[i], rangeEnd)
        /\ loops[i].pushed <= MAX_ITERATIONS

\* A yearly series without until, expanded over a window centuries ahead,
\* has used all 1000 passes.
C5_Witness ==
  /\ Returned /\ Len(tasks) = 1 /\ Recurring(tasks[1])
  /\ tasks[1].recurrence.frequency = YEARLY
  /\ ~tasks[1].recurrence.hasUntil
  /\ loops[1].currentStart < rangeEnd
  /\ loops[1].iterations = MAX_ITERATIONS

\* How far past the cap a step is looked for.
StepsBeyondCap == 200

\* Every occurrence of a recurring series in the result starts at one of the
\* series' first 1000 steps.
OnlyStepsBelowCap ==
  \A i \in 1..Len(tasks) :
    Recurring(tasks[i]) =>
      LET firstSteps == StepStarts(tasks[i], MAX_ITERATIONS)
      IN  \A j \in 1..Len(Segment(i)) :
            \E k \in 1..MAX_ITERATIONS : Segment(i)[j].start = firstSteps[k]

\* A daily series without until, interval >= 1, whose start lies more than
\* 1000 intervals before rangeStart.
OldDaily(task) ==
  /\ Recurring(task)
  /\ task.recurrence.frequency = DAILY
  /\ ~task.recurrence.hasUntil
  /\ IntervalOf(task.recurrence) >= 1
  /\ setDatePlus(task.start, MAX_ITERATIONS * IntervalOf(task.recurrence)) < rangeStart

\* C6 as stated: occurrences come only from steps below 1000, and a daily
\* series without until that starts more than 1000 intervals before rangeStart
\* has no occurrence in the window.
C6_OldDailySeriesEmpty ==
  Returned =>
    /\ OnlyStepsBelowCap
    /\ \A i \in 1..Len(tasks) : OldDaily(tasks[i]) => Segment(i) = <<>>

\* C6 (amended): occurrences come only from steps below 1000, also when a later
\* step overlaps the window; a daily series without until that starts more
\* than 1000 intervals before rangeStart, and whose occurrences are no longer
\* than one interval, has no occurrence in the window.
C6_CapCountsFromSeriesStart ==
  Returned =>
    /\ OnlyStepsBelowCap
    /\ \A i \in 1..Len(tasks) :
         (/\ OldDaily(tasks[i])
          /\ tasks[i].end - tasks[i].start
               <= IntervalOf(tasks[i].recurrence) * MinutesPerDay)
           => Segment(i) = <<>>

\* The daily series since 2020 over a window in 2023: a step past the cap
\* overlaps the window, the loop stopped at the cap and nothing was returned.
C6_Witness ==
  /\ Returned /\ Len(tasks) = 1 /\ OldDaily(tasks[1])
  /\ \E n \in MAX_ITERATIONS..(MAX_ITERATIONS + StepsBeyondCap) :
       LET s == setDatePlus(tasks[1].start, n * IntervalOf(tasks[1].recurrence))
       IN  s < rangeEnd /\ s + (tasks[1].end - tasks[1].start) > rangeStart
  /\ loops[1].iterations = MAX_ITERATIONS
  /\ result = <<>>

\* C7: every occurrence of a recurring series lasts exactly as long as the
\* series' own span, end - start = series.end - series.start.
C7_DurationPreserved ==
  Returned =>
    \A i \in 1..Len(tasks) :
      Recurring(tasks[i]) =>
        \A j \in 1..Len(Segment(i)) :
          Segment(i)[j].end - Segment(i)[j].start = tasks[i].end - tasks[i].start

\* The monthly series from Jan 31: its second occurrence, reached across
\* February, is on Mar 3 and one hour long.
C7_Witness ==
  /\ Returned /\ Len(tasks) = 1
  /\ tasks[1].recurrence.frequency = MONTHLY
  /\ tasks[1].start = At(2023, 1, 31, 9, 0)
  /\ Len(result) >= 2
  /\ result[2].start = At(2023, 3, 3, 9, 0)
  /\ result[2].end = At(2023, 3, 3, 10, 0)

\* C8: the id of an occurrence of a recurring series is the series id, "::"
\* and the ISO string of the occurrence's start, and parseVirtualId gives back
\* both; the occurrence of a non-recurring series has the series id, which
\* parseVirtualId returns with no instance date.
C8_OccurrenceIds ==
  Returned =>
    \A i \in 1..Len(tasks) :
      \A j \in 1..Len(Segment(i)) :
        LET o == Segment(i)[j]
        IN  IF Recurring(tasks[i])
            THEN /\ o.id = tasks[i].id \o <<":", ":">> \o toISOString(o.start)
                 /\ parseVirtualId(o.id) =
                      [originalId |-> tasks[i].id, hasInstance |-> TRUE,
                       instanceDate |-> toISOString(o.start)]
            ELSE /\ o.id = tasks[i].id
                 /\ parseVirtualId(o.id) =
                      [originalId |-> tasks[i].id, hasInstance |-> FALSE,
                       instanceDate |-> <<>>]

\* A result holding the occurrence of a one-off series and occurrences of a
\* recurring one.
C8_Witness ==
  /\ Returned /\ Len(tasks) = 2
  /\ NotRecurring(tasks[1]) /\ Recurring(tasks[2])
  /\ loops[1].pushed = 1 /\ loops[2].pushed >= 2
  /\ result[1].id = tasks[1].id
  /\ parseVirtualId(result[2].id).instanceDate = toISOString(result[2].start)

\* C9: an occurrence of a recurring series is completed exactly when the ISO
\* string of its start is in completedInstances, whatever the series' own
\* flag; the occurrence of a non-recurring series has the series' flag.
C9_CompletedPerInstance ==
  Returned =>
    \A i \in 1..Len(tasks) :
      \A j \in 1..Len(Segment(i)) :
        LET o == Segment(i)[j]
        IN  IF Recurring(tasks[i])
            THEN o.completed <=>
                   \E k \in 1..Len(tasks[i].completedInstances) :
                     tasks[i].completedInstances[k] = toISOString(o.start)
            ELSE o.completed = tasks[i].completed

\* A series whose own flag is set and that has one completed instance: that
\* occurrence is completed, the next one is not.
C9_Witness ==
  /\ Returned /\ Len(tasks) = 1 /\ Recurring(tasks[1])
  /\ tasks[1].completed
  /\ Len(result) >= 2
  /\ result[1].completed
  /\ ~result[2].completed

(***************************************************************************)
(* App.tsx, components/TaskForm.tsx                                        *)
(***************************************************************************)
DAY  == "Day"
WEEK == "Week"
LIST == "List"

\* The most ids crypto.randomUUID hands out, so the most series ever made.
MaxIds == 2

\* The day the App is opened (currentDate = new Date()): Tue 2023-01-10.
Today == DaysFromCivil(2023, 1, 10)

\* Date.prototype.getDay() of a day number (1970-01-01 was a Thursday).
getDay(d) == (d + 4) % 7

\* The view's `start`.
ViewStart(vm, cd) ==
  IF vm = DAY THEN cd * MinutesPerDay
  ELSE (cd - getDay(cd)) * MinutesPerDay

\* The view's `end`.  The day view's 23:59:59.999 lies between the last whole
\* minute of the day and midnight; the expander only tests `instant < end` on
\* whole minutes, for which it decides as the next midnight does.
ViewEnd(vm, cd) ==
  IF vm = DAY THEN cd * MinutesPerDay + MinutesPerDay
  ELSE (cd - getDay(cd) + 7) * MinutesPerDay

\* useMemo visibleTasks: tasksToDisplay, the list before the search filter.
visibleTasksOf(ts, vm, cd) ==
  IF vm = LIST THEN ts
  ELSE generateRecurringTasks(ts, ViewStart(vm, cd), ViewEnd(vm, cd))

\* String.prototype.toLowerCase() on a sequence of characters, for the
\* letters the titles and queries of the model are written with.
toLowerCase(text) ==
  [n \in 1..Len(text) |->
     CASE text[n] = "G" -> "g"
       [] text[n] = "T" -> "t"
       [] OTHER         -> text[n]]

\* String.prototype.trim()
RECURSIVE trim(_)
trim(text) ==
  IF text = <<>> THEN <<>>
  ELSE IF Head(text) = " " THEN trim(Tail(text))
  ELSE IF text[Len(text)] = " " THEN trim(SubSeq(text, 1, Len(text) - 1))
  ELSE text

\* String.prototype.includes(part)
stringIncludes(text, part) ==
  \E n \in 0..(Len(text) - Len(part)) : SubSeq(text, n + 1, n + Len(part)) = part

\* useMemo visibleTasks: the search filter applied to tasksToDisplay.  Titles
\* and descriptions are read only when the query is not blank.
searchFilter(tasksToDisplay, q) ==
  IF trim(q) = <<>> THEN tasksToDisplay
  ELSE SelectSeq(tasksToDisplay,
                 LAMBDA t : \/ stringIncludes(toLowerCase(t.title), toLowerCase(q))
                            \/ stringIncludes(toLowerCase(t.description), toLowerCase(q)))

\* crypto.randomUUID(): the n-th id, different from all earlier ones.
randomUUID(n) == <<"uuid", ToString(n)>>

\* editingTask === undefined
undefinedTask == [defined |-> FALSE, id |-> <<>>]

\* What the user can have typed into the form when submitting it.
FormInputs ==
  { \* one-off, 10:00-11:00 today
    [start |-> Today * MinutesPerDay + 600, end |-> Today * MinutesPerDay + 660,
     freq |-> NONE, interval |-> 1, hasUntil |-> FALSE, until |-> 0,
     reminderMinutes |-> 15],
    \* daily 09:00-10:00 from today, interval field 0, until tomorrow's date
    [start |-> Today * MinutesPerDay + 540, end |-> Today * MinutesPerDay + 600,
     freq |-> DAILY, interval |-> 0, hasUntil |-> TRUE,
     until |-> (Today + 1) * MinutesPerDay, reminderMinutes |-> 30],
    \* end not after start
    [start |-> Today * MinutesPerDay + 600, end |-> Today * MinutesPerDay + 600,
     freq |-> NONE, interval |-> 1, hasUntil |-> FALSE, until |-> 0,
     reminderMinutes |-> 15] }

\* TaskForm.handleSubmit: the object passed to onSave.
taskDataOf(f) ==
  [title |-> "task", description |-> "", start |-> f.start, end |-> f.end,
   priority |-> "Medium", reminderMinutes |-> f.reminderMinutes,
   recurrence |->
     IF f.freq # NONE
     THEN [defined |-> TRUE, frequency |-> f.freq, hasInterval |-> TRUE,
           interval |-> IF f.interval > 1 THEN f.interval ELSE 1,
           hasUntil |-> f.hasUntil, until |-> IF f.hasUntil THEN f.until ELSE 0]
     ELSE NoRecurrence]

\* An edit that also empties the completed occurrences of the series.
mergeTask_prunesInstances(t, d) ==
  [t EXCEPT !.title = d.title, !.description = d.description, !.start = d.start,
            !.end = d.end, !.priority = d.priority,
            !.reminderMinutes = d.reminderMinutes, !.recurrence = d.recurrence,
            !.completedInstances = <<>>]

\* { ...t, ...taskData }
mergeTask(t, d) ==
  [t EXCEPT !.title = d.title, !.description = d.description, !.start = d.start,
            !.end = d.end, !.priority = d.priority,
            !.reminderMinutes = d.reminderMinutes, !.recurrence = d.recurrence]

\* { id: crypto.randomUUID(), completed: false, ...taskData }
newTask(id, d) ==
  [id |-> id, title |-> d.title, description |-> d.description, start |-> d.start,
   end |-> d.end, priority |-> d.priority, reminderMinutes |-> d.reminderMinutes,
   completed |-> FALSE, recurrence |-> d.recurrence, completedInstances |-> <<>>]

\* The task list after handleSaveTask(taskData).
savedTasks(ts, editing, id, d) ==
  IF editing.defined
  THEN [i \in 1..Len(ts) |-> IF ts[i].id = editing.id THEN mergeTask(ts[i], d) ELSE ts[i]]
  ELSE Append(ts, newTask(id, d))

\* Record lists the AI planner can hand to handleBatchImport.
ImportBatches ==
  { << [start |-> Today * MinutesPerDay + 540, end |-> Today * MinutesPerDay + 600,
        hasReminder |-> FALSE, reminderMinutes |-> 0,
        recurrence |-> [EveryUntil(DAILY, 1, (Today + 1) * MinutesPerDay + 600)
                          EXCEPT !.hasInterval = FALSE]],
       [start |-> Today * MinutesPerDay + 720, end |-> Today * MinutesPerDay + 700,
        hasReminder |-> TRUE, reminderMinutes |-> 0, recurrence |-> NoRecurrence] >> }

\* The object handleBatchImport makes of one record.
formattedTask(id, t) ==
  [id |-> id, title |-> "task", description |-> "", start |-> t.start, end |-> t.end,
   priority |-> "Medium",
   reminderMinutes |-> IF t.hasReminder /\ t.reminderMinutes # 0
                       THEN t.reminderMinutes ELSE 15,
   completed |-> FALSE, recurrence |-> t.recurrence, completedInstances |-> <<>>]

\* completedInstances.filter(d => d !== instanceDate)
RECURSIVE withoutInstance(_, _)
withoutInstance(list, instanceDate) ==
  IF list = <<>> THEN <<>>
  ELSE IF Head(list) = instanceDate THEN withoutInstance(Tail(list), instanceDate)
       ELSE <<Head(list)>> \o withoutInstance(Tail(list), instanceDate)

\* completedInstances.includes(instanceDate)
includes(list, x) == \E i \in 1..Len(list) : list[i] = x

\* A callback that keeps no other completed occurrence of the series.
toggledTask_forgetsOthers(t, parsed) ==
  IF t.id # parsed.originalId THEN t
  ELSE IF parsed.hasInstance /\ parsed.instanceDate # <<>>
       THEN [t EXCEPT !.completedInstances =
               IF includes(t.completedInstances, parsed.instanceDate)
               THEN <<>>
               ELSE <<parsed.instanceDate>>]
       ELSE [t EXCEPT !.completed = ~t.completed]

\* A callback that appends the occurrence whether or not it is listed.
toggledTask_alwaysAppends(t, parsed) ==
  IF t.id # parsed.originalId THEN t
  ELSE IF parsed.hasInstance /\ parsed.instanceDate # <<>>
       THEN [t EXCEPT !.completedInstances =
               Append(t.completedInstances, parsed.instanceDate)]
       ELSE [t EXCEPT !.completed = ~t.completed]

\* The callback handleToggleComplete maps over the task list.
toggledTask(t, parsed) ==
  IF t.id # parsed.originalId THEN t
  ELSE IF parsed.hasInstance /\ parsed.instanceDate # <<>>
       THEN [t EXCEPT !.completedInstances =
               IF includes(t.completedInstances, parsed.instanceDate)
               THEN withoutInstance(t.completedInstances, parsed.instanceDate)
               ELSE Append(t.completedInstances, parsed.instanceDate)]
       ELSE [t EXCEPT !.completed = ~t.completed]

\* tasks.filter(t => t.id !== originalId)
RECURSIVE withoutTask(_, _)
withoutTask(ts, originalId) ==
  IF ts = <<>> THEN <<>>
  ELSE IF Head(ts).id = originalId THEN withoutTask(Tail(ts), originalId)
       ELSE <<Head(ts)>> \o withoutTask(Tail(ts), originalId)

\* handleEditTask(task): the editingTask it sets, undefined if no series has
\* the decoded id.
editingTaskFor(ts, task) ==
  LET originalId == parseVirtualId(task.id).originalId
  IN  IF \E i \in 1..Len(ts) : ts[i].id = originalId
      THEN [defined |-> TRUE, id |-> originalId]
      ELSE undefinedTask

\* The App mounted with nothing in storage.
Init ==
  /\ tasks = <<>>
  /\ viewMode = DAY
  /\ currentDate = Today
  /\ visibleTasks = <<>>
  /\ searchQuery = <<>>
  /\ nextId = 0
  /\ rangeStart = 0
  /\ rangeEnd = 0
  /\ result = <<>>
  /\ loops = <<>>
  /\ phase = "app"
  /\ NoOtherCall
  /\ ScannerOff

\* setInterval(checkReminders, 10000), in seconds.
CheckIntervalSeconds == 10

\* The effect with dependencies [tasks, notifiedTaskIds] run without its
\* cleanup: the timer registered before stays pending.
RunReminderEffect_noCleanup(pending, registeredBefore) ==
  LET registered == [due |-> now' + CheckIntervalSeconds, tasks |-> tasks',
                     notifiedTaskIds |-> notifiedTaskIds']
  IN  /\ timers' = pending \cup {registered}
      /\ intervalId' = registered

\* The effect with dependencies [tasks, notifiedTaskIds] run again after a
\* render that changed one of them: the cleanup clears the timer the effect
\* registered before, then a timer is registered whose callback closes over
\* the new tasks and notifiedTaskIds.  pending are the timers of the event
\* loop, registeredBefore the one the effect holds.  React commits the render
\* and runs the effect before the old timer, ten seconds apart, calls back
\* again, so the step that changes the state also runs the effect.
RunReminderEffect(pending, registeredBefore) ==
  LET registered == [due |-> now' + CheckIntervalSeconds, tasks |-> tasks',
                     notifiedTaskIds |-> notifiedTaskIds']
  IN  /\ timers' = (pending \ {registeredBefore}) \cup {registered}
      /\ intervalId' = registered

\* What a handler of the user means to the scanner: nothing of the scanner's
\* state is written; where a scanner runs and the task list changed, the
\* effect runs again.  (setTasks with a list equal to the old one also makes
\* a new array; that re-registration is left out.)
ReminderEffect ==
  /\ UNCHANGED <<now, notifiedTaskIds, activeReminder, mounted, permission, reminders>>
  /\ IF intervalId # NoTimer /\ tasks' # tasks
     THEN RunReminderEffect(timers, intervalId)
     ELSE UNCHANGED <<timers, intervalId>>

\* The re-render after a state change: the memo follows tasks, viewMode and
\* currentDate; the search box is left as it is.
Render ==
  /\ UNCHANGED searchQuery
  /\ visibleTasks' = searchFilter(visibleTasksOf(tasks', viewMode', currentDate'),
                                  searchQuery')

\* TaskForm.handleSubmit for a form opened by `editing`: rejected if the end is
\* not after the start, else handleSaveTask.
Submit(editing, f) ==
  IF f.start >= f.end
  THEN UNCHANGED <<tasks, nextId>>
  ELSE /\ editing.defined \/ nextId < MaxIds
       /\ tasks' = savedTasks(tasks, editing, randomUUID(nextId + 1), taskDataOf(f))
       /\ nextId' = IF editing.defined THEN nextId ELSE nextId + 1

\* The "new task" button (editingTask undefined), then the form submitted.  The
\* form is modal: no other handler of this model runs while it is open.
CreateTask ==
  /\ phase = "app" /\ mounted
  /\ \E f \in FormInputs : Submit(undefinedTask, f)
  /\ UNCHANGED <<viewMode, currentDate>>
  /\ Render
  /\ ReminderEffect
  /\ UNCHANGED callVars

\* handleEditTask(task) for a task of the current view, then the form submitted.
EditTask ==
  /\ phase = "app" /\ mounted
  /\ \E k \in 1..Len(visibleTasks), f \in FormInputs :
       /\ editingTaskFor(tasks, visibleTasks[k]).defined
       /\ Submit(editingTaskFor(tasks, visibleTasks[k]), f)
  /\ UNCHANGED <<viewMode, currentDate>>
  /\ Render
  /\ ReminderEffect
  /\ UNCHANGED callVars

\* handleBatchImport(newTasks), called by the AI planner.
BatchImport(newTasks) ==
  /\ phase = "app" /\ mounted
  /\ nextId + Len(newTasks) <= MaxIds
  /\ tasks' = tasks \o [k \in 1..Len(newTasks) |->
                          formattedTask(randomUUID(nextId + k), newTasks[k])]
  /\ nextId' = nextId + Len(newTasks)
  /\ UNCHANGED <<viewMode, currentDate>>
  /\ Render
  /\ ReminderEffect
  /\ UNCHANGED callVars

handleBatchImport == \E newTasks \in ImportBatches : BatchImport(newTasks)

\* handleDeleteTask(id) from the list view, the user confirming.
handleDeleteTask ==
  /\ phase = "app" /\ mounted /\ viewMode = LIST
  /\ \E k \in 1..Len(visibleTasks) :
       tasks' = withoutTask(tasks, parseVirtualId(visibleTasks[k].id).originalId)
  /\ UNCHANGED <<viewMode, currentDate, nextId>>
  /\ Render
  /\ ReminderEffect
  /\ UNCHANGED callVars

\* handleToggleComplete(task) for the k-th task of the current view: an
\* occurrence the day or week view shows, or a series of the list view, whose
\* button is disabled for a recurring series.
ToggleComplete(k) ==
  /\ phase = "app" /\ mounted
  /\ k \in 1..Len(visibleTasks)
  /\ viewMode = LIST => NotRecurring(visibleTasks[k])
  /\ UNCHANGED <<viewMode, currentDate, nextId>>
  /\ \E parsed \in {parseVirtualId(visibleTasks[k].id)} :
       tasks' = [i \in 1..Len(tasks) |-> toggledTask(tasks[i], parsed)]
  /\ Render
  /\ ReminderEffect
  /\ UNCHANGED callVars

handleToggleComplete == \E k \in 1..Len(visibleTasks) : ToggleComplete(k)

\* The three view buttons.
setViewMode ==
  /\ phase = "app" /\ mounted
  /\ \E vm \in {DAY, WEEK, LIST} : vm # viewMode /\ viewMode' = vm
  /\ UNCHANGED <<tasks, currentDate, nextId>>
  /\ Render
  /\ ReminderEffect
  /\ UNCHANGED callVars

Next ==
  \/ CreateTask
  \/ EditTask
  \/ handleBatchImport
  \/ handleDeleteTask
  \/ handleToggleComplete
  \/ setViewMode

Spec == Init /\ [][Next]_vars

(***************************************************************************)
(* Per-occurrence completion in the App                                    *)
(***************************************************************************)
\* The expansion of a task list over the window the view vm shows.
ExpansionOf(ts, vm) ==
  generateRecurringTasks(ts, ViewStart(vm, currentDate), ViewEnd(vm, currentDate))

\* Two entries of an expansion that differ at most in completion.
SameButCompletion(a, b) ==
  [a EXCEPT !.completed = FALSE, !.completedInstances = <<>>]
    = [b EXCEPT !.completed = FALSE, !.completedInstances = <<>>]

\* What a toggle of the k-th visible task, an occurrence, leaves alone and
\* what it flips, in the day and week expansions before and after the step.
OnlyThatOccurrenceFlips(k) ==
  LET id     == visibleTasks[k].id
      series == parseVirtualId(id).originalId
  IN  /\ Len(tasks') = Len(tasks)
      /\ \A i \in 1..Len(tasks) :
           /\ tasks'[i].completed = tasks[i].completed
           /\ tasks[i].id # series => tasks'[i] = tasks[i]
      /\ \A vm \in {DAY, WEEK} :
           \A before \in {ExpansionOf(tasks, vm)}, after \in {ExpansionOf(tasks', vm)} :
             /\ Len(after) = Len(before)
             /\ \A j \in 1..Len(before) :
                  /\ SameButCompletion(after[j], before[j])
                  /\ after[j].completed =
                       IF before[j].id = id THEN ~before[j].completed
                       ELSE before[j].completed
             /\ vm = WEEK => \E j \in 1..Len(before) : before[j].id = id

\* C10: a step of handleToggleComplete given an occurrence (a composite id)
\* flips the completion of exactly that occurrence in the expansions made
\* afterwards: every other occurrence of the series, every other series and
\* the series' own completed flag keep their values.
C10_ToggleOneOccurrence ==
  [][ \A k \in 1..Len(visibleTasks) :
        (ToggleComplete(k) /\ parseVirtualId(visibleTasks[k].id).hasInstance)
          => OnlyThatOccurrenceFlips(k) ]_vars

\* Two series, one of them recurring with one of its two occurrences of the
\* week toggled to completed, the other occurrence and the series flag not.
C10_Witness ==
  /\ phase = "app" /\ viewMode = WEEK
  /\ Len(tasks) = 2
  /\ \E i \in 1..2 :
       /\ ~NotRecurring(tasks[i])
       /\ Len(tasks[i].completedInstances) = 1
       /\ ~tasks[i].completed
       /\ \E j, l \in 1..Len(visibleTasks) :
            /\ parseVirtualId(visibleTasks[j].id).originalId = tasks[i].id
            /\ parseVirtualId(visibleTasks[l].id).originalId = tasks[i].id
            /\ visibleTasks[j].completed
            /\ ~visibleTasks[l].completed
            /\ visibleTasks[j].id = VirtualId(tasks[i].id, tasks[i].completedInstances[1])

(***************************************************************************)
(* Calls of parseVirtualId on chosen arguments.                            *)
(***************************************************************************)
\* The longest argument spelled out character by character.
MaxIdLen == 6

\* The longest series id a composite argument is built from.
MaxSeriesIdLen == 2

\* The characters of spelled-out texts: the colon and any other character.
IdChars == {":", "u"}

\* Every text of at most n characters.
Texts(n) == UNION { [1..k -> IdChars] : k \in 0..n }

\* Series ids, with and without colons.
SeriesIds == Texts(MaxSeriesIdLen)

\* Occurrence starts, appended to an id as currentStart.toISOString().
OccurrenceStarts == { At(2023,1,10,9,0), At(2024,2,29,0,0) }

\* Arguments of the call: arbitrary texts, and ids in the format
\* generateRecurringTasks gives an occurrence.
ParseInputs ==
  Texts(MaxIdLen)
    \cup { VirtualId(id, toISOString(t)) : id \in SeriesIds, t \in OccurrenceStarts }

InitParse ==
  /\ tasks = <<>>
  /\ viewMode = "Day"
  /\ currentDate = 0
  /\ visibleTasks = <<>>
  /\ searchQuery = <<>>
  /\ nextId = 0
  /\ rangeStart = 0
  /\ rangeEnd = 0
  /\ result = <<>>
  /\ loops = <<>>
  /\ phase = "input"
  /\ idToParse \in ParseInputs
  /\ decoded = parseVirtualId(<<>>)
  /\ target = 0
  /\ conflict = FALSE
  /\ ScannerOff

\* The call.
CallParse ==
  /\ phase = "input"
  /\ decoded' = parseVirtualId(idToParse)
  /\ phase' = "returned"
  /\ UNCHANGED <<idToParse, target, conflict, rangeStart, rangeEnd, result, loops>>
  /\ UNCHANGED <<appVars, scanVars>>

NextParse == CallParse

SpecParse == InitParse /\ [][NextParse]_vars

\* The text holds the separator at position i.
SeparatorAt(s, i) == i < Len(s) /\ s[i] = Separator[1] /\ s[i + 1] = Separator[2]

ContainsSeparator(s) == \E i \in 1..Len(s) : SeparatorAt(s, i)

\* Where the first separator of a text that contains one begins.
FirstSeparator(s) ==
  CHOOSE i \in 1..Len(s) : SeparatorAt(s, i) /\ \A j \in 1..(i - 1) : ~SeparatorAt(s, j)

\* C11: for every series id that does not contain the separator and every
\* occurrence start t, parseVirtualId(id + '::' + t's ISO string) returns
\* originalId = id and instanceDate = that ISO string.
C11_RoundTrip ==
  Returned =>
    \A id \in SeriesIds, t \in OccurrenceStarts :
      (~ContainsSeparator(id) /\ idToParse = VirtualId(id, toISOString(t)))
        => /\ decoded.hasInstance
           /\ decoded.originalId = id
           /\ decoded.instanceDate = toISOString(t)

\* C12: parseVirtualId returns, for an argument containing the separator once
\* or more, the text before the first separator as originalId and the text
\* after it as instanceDate; for an argument without the separator, the whole
\* argument as originalId and no instance date.
C12_SplitsOnFirstSeparator ==
  Returned =>
    IF ContainsSeparator(idToParse)
    THEN LET i == FirstSeparator(idToParse)
         IN  /\ decoded.hasInstance
             /\ decoded.originalId = SubSeq(idToParse, 1, i - 1)
             /\ decoded.instanceDate = SubSeq(idToParse, i + 2, Len(idToParse))
    ELSE /\ ~decoded.hasInstance
         /\ decoded.originalId = idToParse

(***************************************************************************)
(* App.tsx: checkConflict                                                  *)
(***************************************************************************)
\* checkConflict excluding only the pool member with the target's own id.
checkConflict_sameIdOnly(task) ==
  \E i \in 1..Len(visibleTasks) :
    LET t == visibleTasks[i]
    IN  /\ task.id # t.id
        /\ ~(t.completed \/ task.completed)
        /\ task.start < t.end /\ task.end > t.start

\* checkConflict comparing closed spans.
checkConflict_closedSpans(task) ==
  \E i \in 1..Len(visibleTasks) :
    LET t == visibleTasks[i]
    IN  /\ parseVirtualId(task.id).originalId # parseVirtualId(t.id).originalId
        /\ ~(t.completed \/ task.completed)
        /\ task.start <= t.end /\ task.end >= t.start

\* checkConflict looking through the expansion before the search filter.
checkConflict_unfilteredPool(task) ==
  \E shown \in {visibleTasksOf(tasks, viewMode, currentDate)} :
    \E i \in 1..Len(shown) :
      LET t == shown[i]
      IN  /\ parseVirtualId(task.id).originalId # parseVirtualId(t.id).originalId
          /\ ~(t.completed \/ task.completed)
          /\ task.start < t.end /\ task.end > t.start

\* visibleTasks.some(t => ...): start and end are valid ISO strings, so
\* getTime() is their instant.
checkConflict(task) ==
  \E i \in 1..Len(visibleTasks) :
    LET t == visibleTasks[i]
    IN  /\ parseVirtualId(task.id).originalId # parseVirtualId(t.id).originalId
        /\ ~(t.completed \/ task.completed)
        /\ task.start < t.end /\ task.end > t.start

\* A series with its title and description spelled out.
Titled(series, title, description) ==
  [series EXCEPT !.title = title, !.description = description]

\* Series the conflict check is made among.
ConflictTemplates ==
  << \* 1: "Gym", one-off 10:00-11:00
     Titled(Series(<<"u1">>, At(2023,1,10,10,0), At(2023,1,10,11,0), NoRecurrence,
                   FALSE, <<>>), <<"G","y","m">>, <<>>),
     \* 2: "tax", one-off 11:00-12:00, starting where 1 ends
     Titled(Series(<<"u2">>, At(2023,1,10,11,0), At(2023,1,10,12,0), NoRecurrence,
                   FALSE, <<>>), <<"t","a","x">>, <<>>),
     \* 3: "Gym", one-off 10:30-11:30, completed
     Titled(Series(<<"u3">>, At(2023,1,10,10,30), At(2023,1,10,11,30), NoRecurrence,
                   TRUE, <<>>), <<"G","y","m">>, <<>>),
     \* 4: "tax", daily 09:00-10:30, today's occurrence completed
     Titled(Series(<<"u4">>, At(2023,1,9,9,0), At(2023,1,9,10,30), Every(DAILY, 1),
                   FALSE, <<toISOString(At(2023,1,10,9,0))>>), <<"t","a","x">>, <<>>),
     \* 5: "run", described "at gym", daily 09:30-10:15, series flag set
     Titled(Series(<<"u5">>, At(2023,1,10,9,30), At(2023,1,10,10,15), Every(DAILY, 1),
                   TRUE, <<>>), <<"r","u","n">>, <<"a","t"," ","g","y","m">>),
     \* 6: "Tax", daily, each occurrence three days long
     Titled(Series(<<"u6">>, At(2023,1,8,0,0), At(2023,1,11,0,0), Every(DAILY, 1),
                   FALSE, <<>>), <<"T","a","x">>, <<>>),
     \* 7: "run", described "at gym", one-off 08:00-09:00, ending where 4's
     \* occurrences start
     Titled(Series(<<"u7">>, At(2023,1,10,8,0), At(2023,1,10,9,0), NoRecurrence,
                   FALSE, <<>>), <<"r","u","n">>, <<"a","t"," ","g","y","m">>) >>

\* What the search box can hold: nothing, a blank, and two words.
SearchQueries == { <<>>, <<" ">>, <<"G","y","m">>, <<"t","a">> }

\* Task lists of one or two different series.
ConflictLists ==
  { <<ConflictTemplates[i]>> : i \in 1..Len(ConflictTemplates) } \cup
  { <<ConflictTemplates[p[1]], ConflictTemplates[p[2]]>> :
      p \in { q \in (1..Len(ConflictTemplates)) \X (1..Len(ConflictTemplates)) :
                q[1] # q[2] } }

\* The App showing one of the lists in one of its views on 2023-01-10.
InitConflict ==
  /\ tasks \in ConflictLists
  /\ viewMode \in {DAY, WEEK, LIST}
  /\ currentDate = Today
  /\ searchQuery \in SearchQueries
  /\ visibleTasks = searchFilter(visibleTasksOf(tasks, viewMode, currentDate), searchQuery)
  /\ nextId = 0
  /\ rangeStart = 0
  /\ rangeEnd = 0
  /\ result = <<>>
  /\ loops = <<>>
  /\ phase = "input"
  /\ NoOtherCall
  /\ ScannerOff

\* A view calling checkConflict(task) for one of the tasks it shows.
CallCheckConflict ==
  /\ phase = "input"
  /\ \E k \in 1..Len(visibleTasks) :
       /\ target' = k
       /\ conflict' = checkConflict(visibleTasks[k])
  /\ phase' = "returned"
  /\ UNCHANGED <<idToParse, decoded, rangeStart, rangeEnd, result, loops>>
  /\ UNCHANGED <<appVars, scanVars>>

NextConflict == CallCheckConflict

SpecConflict == InitConflict /\ [][NextConflict]_vars

\* The series an entry of the pool comes from: its index in tasks.
OwnerOf(o) ==
  CHOOSE i \in 1..Len(tasks) :
    o.id \in {tasks[i].id, VirtualId(tasks[i].id, toISOString(o.start))}

\* Two entries whose spans share more than one instant.
SpansOverlap(a, b) == a.start < b.end /\ a.end > b.start

\* C13: a reported conflict is never caused by a pool member that decodes to
\* the target's series id: whenever checkConflict returns true, a member of a
\* different series overlaps the target; overlapping occurrences of the
\* target's own series, or the target itself, do not make it true.
C13_NeverWithOwnSeries ==
  (Returned /\ conflict) =>
    \E i \in 1..Len(visibleTasks) :
      /\ OwnerOf(visibleTasks[i]) # OwnerOf(visibleTasks[target])
      /\ SpansOverlap(visibleTasks[target], visibleTasks[i])

\* The target is an uncompleted occurrence overlapped by another uncompleted
\* occurrence of its own series, and no conflict is reported.
C13_Witness ==
  /\ Returned /\ target > 0 /\ ~conflict
  /\ ~visibleTasks[target].completed
  /\ \E i \in 1..Len(visibleTasks) \ {target} :
       /\ parseVirtualId(visibleTasks[i].id).originalId
            = parseVirtualId(visibleTasks[target].id).originalId
       /\ ~visibleTasks[i].completed
       /\ SpansOverlap(visibleTasks[target], visibleTasks[i])

\* C14: checkConflict(target) is true exactly when the pool holds an entry of
\* a different series with neither it nor the target completed and
\* target.start < other.end and target.end > other.start.
C14_ConflictIffOverlap ==
  (Returned /\ target > 0) =>
    (conflict <=>
       \E i \in 1..Len(visibleTasks) :
         /\ OwnerOf(visibleTasks[i]) # OwnerOf(visibleTasks[target])
         /\ ~visibleTasks[i].completed
         /\ ~visibleTasks[target].completed
         /\ visibleTasks[target].start < visibleTasks[i].end
         /\ visibleTasks[target].end > visibleTasks[i].start)

\* The target ends at the instant an uncompleted entry of another series
\* starts, nothing else is in the pool, and no conflict is reported.
C14_Witness ==
  /\ Returned /\ target > 0 /\ ~conflict
  /\ Len(visibleTasks) = 2
  /\ ~visibleTasks[target].completed
  /\ \E i \in 1..Len(visibleTasks) :
       /\ OwnerOf(visibleTasks[i]) # OwnerOf(visibleTasks[target])
       /\ ~visibleTasks[i].completed
       /\ visibleTasks[target].end = visibleTasks[i].start

(***************************************************************************)
(* App.tsx: the reminder scanner (checkReminders and its effect)           *)
(***************************************************************************)
SecondsPerDay == 24 * 60 * 60

\* startTime + 60000, in seconds.
GraceSeconds == 60

\* todayStart of a tick at clock n, as an instant in minutes.
todayStart(n) == (n \div SecondsPerDay) * MinutesPerDay

\* todayEnd (23:59:59.999): for the expander's `<` on whole minutes, the next
\* midnight.
todayEnd(n) == todayStart(n) + MinutesPerDay

tasksForReminders(ts, n) == generateRecurringTasks(ts, todayStart(n), todayEnd(n))

\* startTime - task.reminderMinutes * 60 * 1000, in seconds.
reminderTime(task) == (task.start - task.reminderMinutes) * 60

\* The forEach callback reaching its if-body for a task, without the upper
\* end of the window.
IsDue_noGrace(task, notified, n) ==
  /\ ~(task.completed \/ task.id \in notified)
  /\ n >= reminderTime(task)

\* The forEach callback reaching its if-body also for a task whose id is in
\* the notified set.
IsDue_ignoresNotified(task, notified, n) ==
  /\ ~task.completed
  /\ n >= reminderTime(task) /\ n < task.start * 60 + GraceSeconds

\* The forEach callback reaches its if-body for a task.
IsDue(task, notified, n) ==
  /\ ~(task.completed \/ task.id \in notified)
  /\ n >= reminderTime(task) /\ n < task.start * 60 + GraceSeconds

\* The tasks the if-body runs for in one call of checkReminders whose closure
\* holds ts and notified, in the order of forEach.
DueTasks(ts, notified, n) ==
  SelectSeq(tasksForReminders(ts, n), LAMBDA task : IsDue(task, notified, n))

\* The tasks whose setActiveReminder and setNotifiedTaskIds calls are made:
\* `new Notification(...)` stands in no try block, so when it throws, forEach
\* is left at the first due task.
Handled(due, throws) == IF throws /\ due # <<>> THEN <<due[1]>> ELSE due

\* How many reminder events the id has had.
CountOf(counts, id) == IF id \in DOMAIN counts THEN counts[id] ELSE 0

\* The counts after the events of the handled tasks.
Counted(counts, handled) ==
  [id \in DOMAIN counts \cup {handled[i].id : i \in 1..Len(handled)} |->
     CountOf(counts, id) + Cardinality({i \in 1..Len(handled) : handled[i].id = id})]

\* The timer after its callback ran: setInterval arms it again.
Fired(tm) == [tm EXCEPT !.due = tm.due + CheckIntervalSeconds]

\* The most 10-second steps the clock makes after the App was opened.
MaxClockSteps == 2

\* What storage holds when the App is opened, and the clock then (ten
\* seconds before a reminder instant): tasks made in earlier sessions through
\* the form or a batch import, all with reminderMinutes 15.
ScanStores ==
  { \* a one-off and a daily series, both 09:00-10:00
    [tasks |-> << Series(randomUUID(1), At(2023,1,10,9,0), At(2023,1,10,10,0),
                         NoRecurrence, FALSE, <<>>),
                  Series(randomUUID(2), At(2023,1,9,9,0), At(2023,1,9,10,0),
                         Every(DAILY, 1), FALSE, <<>>) >>,
     at |-> At(2023,1,10,8,44) * 60 + 50],
    \* a one-off starting five minutes after the coming midnight
    [tasks |-> << Series(randomUUID(1), At(2023,1,11,0,5), At(2023,1,11,1,0),
                         NoRecurrence, FALSE, <<>>) >>,
     at |-> At(2023,1,10,23,49) * 60 + 50],
    \* an imported daily series with interval 0
    [tasks |-> << Series(randomUUID(1), At(2023,1,10,9,0), At(2023,1,10,10,0),
                         Every(DAILY, 0), FALSE, <<>>) >>,
     at |-> At(2023,1,10,8,44) * 60 + 50],
    \* a one-off 09:55-10:30, reminded at 09:40
    [tasks |-> << Series(randomUUID(1), At(2023,1,10,9,55), At(2023,1,10,10,30),
                         NoRecurrence, FALSE, <<>>) >>,
     at |-> At(2023,1,10,9,44) * 60 + 50],
    \* nothing stored
    [tasks |-> <<>>, at |-> At(2023,1,10,8,44) * 60 + 50] }

\* The App opened on 2023-01-10 and showing the list view, its scanner
\* registered with the loaded tasks, the user having allowed notifications.
InitScanner ==
  /\ \E store \in ScanStores :
       /\ tasks = store.tasks
       /\ now = store.at
       /\ intervalId = [due |-> store.at + CheckIntervalSeconds, tasks |-> store.tasks,
                        notifiedTaskIds |-> {}]
  /\ timers = {intervalId}
  /\ viewMode = LIST
  /\ currentDate = Today
  /\ visibleTasks = tasks
  /\ searchQuery = <<>>
  /\ nextId = Len(tasks)
  /\ notifiedTaskIds = {}
  /\ activeReminder = <<>>
  /\ mounted = TRUE
  /\ permission = "granted"
  /\ reminders = <<>>
  /\ rangeStart = 0
  /\ rangeEnd = 0
  /\ result = <<>>
  /\ loops = <<>>
  /\ phase = "app"
  /\ NoOtherCall

\* The callback of timer tm run at its due time.  throws: whether
\* `new Notification(...)` throws when called; a rejected audio.play() is
\* caught and changes nothing.
checkReminders(tm, throws) ==
  /\ phase = "app"
  /\ tm \in timers /\ now >= tm.due
  /\ throws => permission = "granted"
  /\ \E handled \in {Handled(DueTasks(tm.tasks, tm.notifiedTaskIds, now), throws)} :
       LET rearmed == (timers \ {tm}) \cup {Fired(tm)}
           held    == IF intervalId = tm THEN Fired(tm) ELSE intervalId
       IN  IF handled = <<>>
           THEN /\ UNCHANGED <<notifiedTaskIds, activeReminder, reminders>>
                /\ timers' = rearmed
                /\ intervalId' = held
           ELSE /\ notifiedTaskIds' =
                     notifiedTaskIds \cup {handled[i].id : i \in 1..Len(handled)}
                /\ activeReminder' = <<handled[Len(handled)]>>
                /\ reminders' = Counted(reminders, handled)
                /\ UNCHANGED <<tasks, now>>
                /\ RunReminderEffect(rearmed, held)
  /\ UNCHANGED <<now, mounted, permission>>
  /\ UNCHANGED <<appVars, callVars>>

Tick == \E tm \in timers, throws \in BOOLEAN : checkReminders(tm, throws)

\* Ten seconds pass with no timer due.
Pass ==
  /\ phase = "app"
  /\ \A tm \in timers : now < tm.due
  /\ \E store \in ScanStores :
       store.at <= now /\ now < store.at + MaxClockSteps * CheckIntervalSeconds
  /\ now' = now + CheckIntervalSeconds
  /\ UNCHANGED <<notifiedTaskIds, activeReminder, timers, intervalId, mounted,
                 permission, reminders>>
  /\ UNCHANGED <<appVars, callVars>>

\* The App unmounted: the effect's cleanup, clearInterval(intervalId), and
\* the component's state gone.
Unmount ==
  /\ phase = "app" /\ mounted /\ intervalId # NoTimer
  /\ mounted' = FALSE
  /\ timers' = timers \ {intervalId}
  /\ intervalId' = NoTimer
  /\ tasks' = <<>>
  /\ visibleTasks' = <<>>
  /\ notifiedTaskIds' = {}
  /\ activeReminder' = <<>>
  /\ UNCHANGED <<now, permission, reminders, viewMode, currentDate, searchQuery, nextId>>
  /\ UNCHANGED callVars

NextScanner ==
  \/ Tick
  \/ Pass
  \/ Unmount
  \/ CreateTask
  \/ EditTask
  \/ handleBatchImport
  \/ handleDeleteTask
  \/ handleToggleComplete

SpecScanner == InitScanner /\ [][NextScanner]_vars

(***************************************************************************)
(* Properties of the reminder scanner                                      *)
(***************************************************************************)
\* The ids whose reminder event count the step raises.
Emitted == { id \in DOMAIN reminders' : CountOf(reminders', id) > CountOf(reminders, id) }

\* The occurrences of all series around the day of the clock, whatever
\* window a tick expands: yesterday, today and tomorrow.
OccurrencesAround(n) ==
  generateRecurringTasks(tasks, todayStart(n) - MinutesPerDay, todayEnd(n) + MinutesPerDay)

\* now lies from the reminder instant of the occurrence to less than 60
\* seconds past its start.
InReminderWindow(o, n) == reminderTime(o) <= n /\ n < o.start * 60 + GraceSeconds

\* C15: over any run of ticks and user operations, at most one reminder
\* event is emitted for any occurrence id, also when one expansion holds the
\* id more than once.
C15_AtMostOneReminderPerId ==
  \A id \in DOMAIN reminders : reminders[id] <= 1

\* C16: every reminder event a tick at clock now emits is for an occurrence
\* of today's expansion that is not completed and has
\* start - reminderMinutes <= now < start + 60 s.
C16_EmittedWithinWindow ==
  [][ \A id \in Emitted :
        \E today \in {tasksForReminders(tasks, now)} :
          \E j \in 1..Len(today) :
            /\ today[j].id = id
            /\ ~today[j].completed
            /\ InReminderWindow(today[j], now) ]_vars

\* A tick has just emitted the reminder of an occurrence: it is the active
\* reminder, notified, and the clock is in its window.
C16_Witness ==
  /\ mounted
  /\ activeReminder # <<>>
  /\ activeReminder[1].id \in notifiedTaskIds
  /\ CountOf(reminders, activeReminder[1].id) = 1
  /\ InReminderWindow(activeReminder[1], now)
  /\ parseVirtualId(activeReminder[1].id).hasInstance

\* C17: a tick in which no side effect fails emits the reminder of every
\* uncompleted, not yet notified occurrence whose reminder instant the clock
\* has reached (and whose start lies less than 60 s back), also when the
\* reminder instant falls on the day before the occurrence's start.
C17_EmittedAtFirstTickInWindow ==
  [][ \A tm \in timers :
        checkReminders(tm, FALSE) =>
          \A around \in {OccurrencesAround(now)} :
            \A j \in 1..Len(around) :
              (/\ ~around[j].completed
               /\ around[j].id \notin notifiedTaskIds
               /\ InReminderWindow(around[j], now))
                => around[j].id \in notifiedTaskIds' ]_vars

\* C18: at every moment at most one scanner timer is pending, it is the one
\* the effect registered last, and once the scanner is stopped none is: a
\* timer whose effect was cleaned up makes no further tick.
C18_OneTimerNoneAfterStop ==
  /\ Cardinality(timers) <= 1
  /\ timers \subseteq {intervalId}
  /\ ~mounted => timers = {}

\* The scanner emitted a reminder, so its effect ran again, and was then
\* stopped; time has passed since.
C18_Witness ==
  /\ ~mounted
  /\ timers = {}
  /\ reminders # <<>>
  /\ \E store \in ScanStores : now >= store.at + 2 * CheckIntervalSeconds

\* C19: when `new Notification(...)` throws while a tick handles a due
\* occurrence, all occurrences due in that tick are still marked notified and
\* emitted, and a timer stays pending for later ticks.
C19_FailureIgnored ==
  [][ \A tm \in timers :
        checkReminders(tm, TRUE) =>
          /\ timers' # {}
          /\ \A due \in {DueTasks(tasks, notifiedTaskIds, now)} :
               \A j \in 1..Len(due) :
                 due[j].id \in notifiedTaskIds' /\ due[j].id \in Emitted ]_vars

(***************************************************************************)
(* Batch import                                                            *)
(***************************************************************************)
\* C20: handleBatchImport appends each imported record as a series whose id
\* differs from every id of the task list and of the other imported records,
\* with completed = false, and with reminderMinutes equal to the supplied
\* value whenever one is supplied (0 included) and 15 only when none is.
C20_ImportAdmitsRecords ==
  [][ \A newTasks \in ImportBatches :
        BatchImport(newTasks) =>
          /\ Len(tasks') = Len(tasks) + Len(newTasks)
          /\ SubSeq(tasks', 1, Len(tasks)) = tasks
          /\ \A k \in 1..Len(newTasks) :
               LET admitted == tasks'[Len(tasks) + k]
               IN  /\ \A i \in 1..Len(tasks') :
                        i # Len(tasks) + k => tasks'[i].id # admitted.id
                   /\ ~admitted.completed
                   /\ admitted.reminderMinutes =
                        IF newTasks[k].hasReminder THEN newTasks[k].reminderMinutes
                        ELSE 15 ]_vars

\* C21: after any sequence of creations and edits through the form and of
\* batch imports, every series of the task list has end > start.
C21_EndAfterStart ==
  phase = "app" => \A i \in 1..Len(tasks) : tasks[i].end > tasks[i].start

\* C22: while the scanner runs, consecutive ticks are never more than
\* CheckIntervalSeconds apart, also when the tasks or the notified set change
\* between two ticks.  Stated on the steps: the due time of the registered
\* timer moves only when that timer fires, and then to CheckIntervalSeconds
\* after the tick; no other step postpones it.
C22_TicksAtMostTenSecondsApart ==
  [][ (mounted /\ mounted' /\ intervalId # NoTimer /\ intervalId' # NoTimer)
        => \/ intervalId'.due <= intervalId.due
           \/ /\ tasks' = tasks
              /\ intervalId.due <= now
              /\ intervalId'.due = now + CheckIntervalSeconds ]_vars

(***************************************************************************)
(* Completed occurrences across edits                                      *)
(***************************************************************************)
\* The entries of a completedInstances list.
EntriesOf(t) == { t.completedInstances[n] : n \in 1..Len(t.completedInstances) }

\* The rule of series t produces, in the days around today, an occurrence
\* whose start is written e.
RuleProduces(t, e) ==
  \E occurrences \in {generateRecurringTasks(<<t>>, (Today - 7) * MinutesPerDay,
                                            (Today + 14) * MinutesPerDay)} :
    \E j \in 1..Len(occurrences) : toISOString(occurrences[j].start) = e

\* C23 as stated: after any creation, edit, toggle and delete, every entry of
\* a recurring series' completedInstances is the start of an occurrence the
\* series' current rule produces.
C23_EntriesMatchCurrentRule ==
  phase = "app" =>
    \A i \in 1..Len(tasks) :
      ~NotRecurring(tasks[i]) =>
        \A e \in EntriesOf(tasks[i]) : RuleProduces(tasks[i], e)

\* C23: what holds of every step.  An entry added to a series is the start of
\* an occurrence of that series the view showed, made by the rule in force at
\* the toggle; an entry leaves a series that stays in the list only by a
\* toggle of exactly that occurrence.  An edit keeps the entries whatever the
\* new rule produces.
C23_EntriesAddedAndRemovedByToggleOnly ==
  [][ \A i \in 1..Len(tasks), j \in 1..Len(tasks') :
        tasks'[j].id = tasks[i].id =>
          /\ \A e \in EntriesOf(tasks'[j]) \ EntriesOf(tasks[i]) :
               \E k \in 1..Len(visibleTasks) :
                 /\ visibleTasks[k].id = VirtualId(tasks[i].id, e)
                 /\ toISOString(visibleTasks[k].start) = e
                 /\ RuleProduces(tasks[i], e)
          /\ \A e \in EntriesOf(tasks[i]) \ EntriesOf(tasks'[j]) :
               \E k \in 1..Len(visibleTasks) :
                 /\ visibleTasks[k].id = VirtualId(tasks[i].id, e)
                 /\ ToggleComplete(k) ]_vars

\* A recurring series edited after one of its occurrences was completed: the
\* entry is kept and the rule now in force produces no occurrence for it.
C23_Witness ==
  /\ phase = "app"
  /\ \E i \in 1..Len(tasks) :
       /\ ~NotRecurring(tasks[i])
       /\ tasks[i].recurrence.hasUntil
       /\ tasks[i].recurrence.until = (Today + 1) * MinutesPerDay
       /\ \E e \in EntriesOf(tasks[i]) : ~RuleProduces(tasks[i], e)

(***************************************************************************)
(* One occurrence seen through different windows                           *)
(***************************************************************************)
\* Occurrence o overlaps the window w.
OverlapsWindow(o, w) == o.start < w[2] /\ o.end > w[1]

\* C24: identity and span of an occurrence do not depend on the window: an
\* occurrence the call returned is also returned, with the same id, start,
\* end and completed, by the call for any other window it overlaps.
C24_WindowIndependent ==
  Returned =>
    \A w \in Windows :
      \A other \in {generateRecurringTasks(tasks, w[1], w[2])} :
        \A j \in 1..Len(result) :
          OverlapsWindow(result[j], w) =>
            /\ \E m \in 1..Len(other) : other[m].id = result[j].id
            /\ \A m \in 1..Len(other) :
                 other[m].id = result[j].id =>
                   /\ other[m].start = result[j].start
                   /\ other[m].end = result[j].end
                   /\ other[m].completed = result[j].completed

(***************************************************************************)
(* The step between two occurrences, in calendar terms                     *)
(***************************************************************************)
IsLeapYear(y) == (y % 4 = 0 /\ y % 100 # 0) \/ y % 400 = 0

DaysInMonth(y, m) ==
  IF m = 2 THEN (IF IsLeapYear(y) THEN 29 ELSE 28)
  ELSE IF m \in {4, 6, 9, 11} THEN 30 ELSE 31

\* The instant of day d of month m of year y at minute tod of the day, where
\* a day past the end of the month counts on into the following month.
RolledDate(y, m, d, tod) ==
  IF d <= DaysInMonth(y, m)
  THEN DaysFromCivil(y, m, d) * MinutesPerDay + tod
  ELSE IF m = 12
       THEN DaysFromCivil(y + 1, 1, d - DaysInMonth(y, m)) * MinutesPerDay + tod
       ELSE DaysFromCivil(y, m + 1, d - DaysInMonth(y, m)) * MinutesPerDay + tod

\* The start one recurrence step after the start t, as the calendar has it.
CalendarStep(rec, t) ==
  LET n      == IntervalOf(rec)
      c      == CivilFromDays(t \div MinutesPerDay)
      tod    == t % MinutesPerDay
      month0 == c.m - 1 + n
  IN  CASE rec.frequency = DAILY   -> t + n * MinutesPerDay
        [] rec.frequency = WEEKLY  -> t + 7 * n * MinutesPerDay
        [] rec.frequency = MONTHLY ->
             RolledDate(c.y + (month0 \div 12), (month0 % 12) + 1, c.d, tod)
        [] rec.frequency = YEARLY  -> RolledDate(c.y + n, c.m, c.d, tod)

\* The call for the monthly series from Jan 31 over the first four months of
\* 2023.
MonthlyFromJan31 ==
  /\ tasks = <<Templates[8]>>
  /\ rangeStart = At(2023,1,1,0,0)
  /\ rangeEnd = At(2023,5,1,0,0)

\* C25: the start of each occurrence of a series is the start of the one
\* before advanced by one step: interval days for Daily, 7 * interval days
\* for Weekly, interval months for Monthly with a day past the end of the
\* month rolling into the following month, interval years for Yearly.  The
\* monthly series from Jan 31 skips February, continues on Mar 3 and keeps
\* the 3rd afterwards.
C25_StartsAdvanceByOneStep ==
  Returned =>
    /\ \A i \in 1..Len(tasks) :
         Recurring(tasks[i]) =>
           \A seg \in {Segment(i)} :
             \A j \in 1..(Len(seg) - 1) :
               seg[j + 1].start = CalendarStep(tasks[i].recurrence, seg[j].start)
    /\ MonthlyFromJan31 =>
         StartsOf(result) = <<At(2023,1,31,9,0), At(2023,3,3,9,0), At(2023,4,3,9,0)>>

C25_Witness == Returned /\ MonthlyFromJan31 /\ Len(result) = 3

(***************************************************************************)
(* Ids within one expansion                                                *)
(***************************************************************************)
\* What C26 asks of the series of the call: ids pairwise distinct and free of
\* the separator, every recurrence interval at least 1.
WellFormedSeries ==
  /\ \A i, j \in 1..Len(tasks) : i # j => tasks[i].id # tasks[j].id
  /\ \A i \in 1..Len(tasks) :
       /\ ~ContainsSeparator(tasks[i].id)
       /\ Recurring(tasks[i]) => IntervalOf(tasks[i].recurrence) >= 1

\* C26: the ids of one expansion result are pairwise distinct, provided the
\* series ids are distinct and contain no "::" and every interval is >= 1.
C26_IdsDistinct ==
  (Returned /\ WellFormedSeries) =>
    \A j, n \in 1..Len(result) : j # n => result[j].id # result[n].id

\* Two series of which one put several occurrences into the result.
C26_Witness ==
  /\ Returned /\ WellFormedSeries
  /\ Len(tasks) = 2
  /\ \A i \in 1..2 : loops[i].pushed >= 1
  /\ \E i \in 1..2 : loops[i].pushed >= 2

(***************************************************************************)
(* Toggling twice                                                          *)
(***************************************************************************)
\* The task list after handleToggleComplete for the task with this id.
ToggledList(ts, id) ==
  LET parsed == parseVirtualId(id)
  IN  [i \in 1..Len(ts) |-> toggledTask(ts[i], parsed)]

\* No entry is twice in a completedInstances list.
NoDuplicateEntry(t) ==
  \A a, b \in 1..Len(t.completedInstances) :
    a # b => t.completedInstances[a] # t.completedInstances[b]

\* C27: toggling the same occurrence twice restores the set of completed
\* occurrences of every series (for a non-recurring task, its completed
\* flag), and no step leaves an entry twice in a completedInstances list.
\* Stated on a toggle step: the toggled task is still shown under the same
\* id, and toggling it again gives back what was there before the step.
C27_ToggleTwiceRestores ==
  [][ /\ \A i \in 1..Len(tasks') : NoDuplicateEntry(tasks'[i])
      /\ \A k \in 1..Len(visibleTasks) :
           ToggleComplete(k) =>
             /\ \E k2 \in 1..Len(visibleTasks') :
                  visibleTasks'[k2].id = visibleTasks[k].id
             /\ \A again \in {ToggledList(tasks', visibleTasks[k].id)} :
                  /\ Len(again) = Len(tasks)
                  /\ \A i \in 1..Len(tasks) :
                       /\ EntriesOf(again[i]) = EntriesOf(tasks[i])
                       /\ NoDuplicateEntry(again[i])
                       /\ again[i].completed = tasks[i].completed
                       /\ [again[i] EXCEPT !.completedInstances = <<>>]
                            = [tasks[i] EXCEPT !.completedInstances = <<>>] ]_vars

\* A series with two completed occurrences next to a completed one-off.
C27_Witness ==
  /\ phase = "app"
  /\ \E i \in 1..Len(tasks) : Len(tasks[i].completedInstances) = 2
  /\ \E i \in 1..Len(tasks) : NotRecurring(tasks[i]) /\ tasks[i].completed

(***************************************************************************)
(* The conflict pool under a search query                                  *)
(***************************************************************************)
\* The search query keeps entry o of the view.
SearchKeeps(o) ==
  \/ trim(searchQuery) = <<>>
  \/ \E text \in {o.title, o.description} :
       stringIncludes(toLowerCase(text), toLowerCase(searchQuery))

\* Entry o of the view, of another series than the target's, overlaps the
\* target with neither of the two completed.
ConflictsWithTarget(o) ==
  /\ OwnerOf(o) # OwnerOf(visibleTasks[target])
  /\ ~o.completed /\ ~visibleTasks[target].completed
  /\ SpansOverlap(visibleTasks[target], o)

\* C28: the pool of checkConflict is the visible list: the stored series in
\* the list view, the expansion over the window in the day and week views,
\* each after the search filter.  A conflict is reported exactly when an
\* entry the query keeps conflicts with the target; an entry the query
\* removes never causes one.
C28_PoolIsVisibleList ==
  (Returned /\ target > 0) =>
    \A shown \in {visibleTasksOf(tasks, viewMode, currentDate)} :
      /\ viewMode = LIST => shown = tasks
      /\ visibleTasks = SelectSeq(shown, SearchKeeps)
      /\ conflict <=>
           \E j \in 1..Len(shown) : SearchKeeps(shown[j]) /\ ConflictsWithTarget(shown[j])

\* The flag differs with the query: no conflict is reported for the target
\* while an entry the query removed conflicts with it.
C28_Witness ==
  /\ Returned /\ target > 0 /\ ~conflict
  /\ trim(searchQuery) # <<>>
  /\ \E shown \in {visibleTasksOf(tasks, viewMode, currentDate)} :
       \E j \in 1..Len(shown) : ~SearchKeeps(shown[j]) /\ ConflictsWithTarget(shown[j])

(***************************************************************************)
(* Several reminders due in one tick                                       *)
(***************************************************************************)
\* C29: when two or more occurrences are due in the same tick, every one of
\* them is in the notified set after the tick, and the active reminder after
\* the tick is the last of them in expansion order.
C29_AllDueNotifiedLastOneActive ==
  [][ \A tm \in timers, throws \in BOOLEAN :
        checkReminders(tm, throws) =>
          \A due \in {DueTasks(tm.tasks, tm.notifiedTaskIds, now)} :
            Len(due) >= 2 =>
              /\ \A j \in 1..Len(due) : due[j].id \in notifiedTaskIds'
              /\ activeReminder' = <<due[Len(due)]>> ]_vars

(***************************************************************************)
(* The notified set over the life of the App                               *)
(***************************************************************************)
\* C30: while the App is mounted the notified set only grows, and a
\* non-recurring task is reminded at most once: a reminder event for a plain
\* series id is the first for that id and the id was not in the notified set,
\* whatever edits the task has had.
C30_NotifiedGrowsOneReminderPerTask ==
  [][ /\ mounted' => notifiedTaskIds \subseteq notifiedTaskIds'
      /\ \A id \in Emitted :
           ~parseVirtualId(id).hasInstance =>
             /\ id \notin notifiedTaskIds
             /\ CountOf(reminders, id) = 0
             /\ CountOf(reminders', id) = 1 ]_vars

\* A one-off reminded once and then edited to a later start: it is not
\* completed, the clock is in the reminder window of its new start, and the
\* active reminder still shows its earlier start.
C30_Witness ==
  /\ phase = "app" /\ mounted
  /\ activeReminder # <<>>
  /\ \E i \in 1..Len(tasks) :
       /\ NotRecurring(tasks[i]) /\ ~tasks[i].completed
       /\ tasks[i].id \in notifiedTaskIds
       /\ CountOf(reminders, tasks[i].id) = 1
       /\ activeReminder[1].id = tasks[i].id
       /\ activeReminder[1].start < tasks[i].start
       /\ InReminderWindow(tasks[i], now)
       /\ now > reminderTime(tasks[i])

====
